---------------------------- MODULE Spec2Model ----------------------------
(***************************************************************************)
(* Fuzzy name matcher (src/main.py): the two name normalizers, the         *)
(* period filter, the nearest-neighbour search and the run that applies    *)
(* them to every query row.                                                *)
(*                                                                         *)
(* A Python str is a sequence of one-character strings.  A Python value    *)
(* handed to a normalizer is a record [type, s]: its type name and its     *)
(* string form str(x).                                                     *)
(***************************************************************************)
EXTENDS Integers, Sequences, FiniteSets, TLC

(***************************************************************************)
(* Characters and the str methods the normalizers use.                     *)
(***************************************************************************)
LowerLetters ==
    << "a", "b", "c", "d", "e", "f", "g", "h", "i", "j", "k", "l", "m", "n", "o", "p", "q", "r",
       "s", "t", "u", "v", "w", "x", "y", "z" >>

UpperLetters ==
    << "A", "B", "C", "D", "E", "F", "G", "H", "I", "J", "K", "L", "M", "N", "O", "P", "Q", "R",
       "S", "T", "U", "V", "W", "X", "Y", "Z" >>

Digits ==
    << "0", "1", "2", "3", "4", "5", "6", "7", "8", "9" >>

\* Characters str.strip() and str.split() treat as whitespace.
Whitespace ==
    {" ", "\t"}

\* The characters of the model in code-point order (tab 9, space 32, & 38,
\* comma 44, hyphen 45, full stop 46, digits, upper case, lower case).
CodePoints ==
    << "\t", " ", "&", ",", "-", "." >> \o Digits \o UpperLetters \o LowerLetters

Range(f) ==
    {f[i] : i \in DOMAIN f}

\* The code point order of the characters.
OrdOf ==
    [c \in Range(CodePoints) |-> CHOOSE i \in DOMAIN CodePoints : CodePoints[i] = c]

Ord(c) ==
    OrdOf[c]

\* The lower-case letter of each upper-case letter.
LowerOf ==
    [c \in Range(UpperLetters) |->
        LowerLetters[CHOOSE i \in DOMAIN UpperLetters : UpperLetters[i] = c]]

\* str.lower() on one character.
LowerChar(c) ==
    IF c \in DOMAIN LowerOf THEN LowerOf[c] ELSE c

\* [a-z0-9 ]
LowerAlnumSpace ==
    Range(LowerLetters) \cup Range(Digits) \cup {" "}

\* [A-Za-z0-9 ]
AlnumSpace ==
    Range(UpperLetters) \cup LowerAlnumSpace

\* str.lower()
lower(s) ==
    [i \in 1..Len(s) |-> LowerChar(s[i])]

RECURSIVE lstrip(_)
lstrip(s) ==
    IF s # <<>> /\ Head(s) \in Whitespace THEN lstrip(Tail(s)) ELSE s

RECURSIVE rstrip(_)
rstrip(s) ==
    IF s # <<>> /\ s[Len(s)] \in Whitespace THEN rstrip(SubSeq(s, 1, Len(s) - 1)) ELSE s

\* str.strip()
strip(s) ==
    rstrip(lstrip(s))

\* re.sub(r'[^...]', '', s): delete every character outside the class.
DeleteOutside(s, class) ==
    SelectSeq(s, LAMBDA c : c \in class)

\* Pattern p occurs in s starting at index i.
MatchAt(s, i, p) ==
    /\ i >= 1
    /\ i + Len(p) - 1 <= Len(s)
    /\ SubSeq(s, i, i + Len(p) - 1) = p

\* The text of s from index i to its end is exactly p.
TailIs(s, i, p) ==
    /\ Len(s) - i + 1 = Len(p)
    /\ SubSeq(s, i, Len(s)) = p

\* re.sub(pattern + '$', '', s) for a pattern that, when it matches at an index,
\* runs to the end of s; at is the set of indices where it matches. The
\* leftmost match is deleted.
DeleteLeftmostToEnd(s, at) ==
    IF at = {} THEN s
    ELSE SubSeq(s, 1, (CHOOSE i \in at : \A j \in at : i <= j) - 1)

(***************************************************************************)
(* normalize_company_names                                                 *)
(***************************************************************************)
legal_forms_us ==
    << <<"p","u","b","l","i","c"," ","l","i","m","i","t","e","d"," ","c","o","m","p","a","n","y">>,
       <<"p","u","b","l","i","c"," ","l","i","m","i","t","e","d">>,
       <<"l","i","m","i","t","e","d">>, <<"u","n","l","i","m","i","t","e","d">>,
       <<"p","a","r","t","n","e","r","s","h","i","p">>,
       <<"i","n","c","o","r","p","o","r","a","t","i","o","n">>,
       <<"i","n","c","o","r","p","o","r","a","t","e","d">>,
       <<"c","o","r","p","o","r","a","t","i","o","n">>, <<"p","l","c">>, <<"p","b","c">>,
       <<"l","t","d">>, <<"i","n","c">>, <<"c","o","r","p">>, <<"l","l","c">>, <<"l","p">>,
       <<"c","o">>, <<"c","o","m","p","a","n","y">>, <<"c","o","m","p","a","n","i","e","s">>,
       <<"h","l","d","g","s">>, <<"h","o","l","d","i","n","g","s">>,
       <<"h","o","l","d","i","n","g">> >>

legal_forms_ext ==
    << <<"a","b">>, <<"a","g">>, <<"a","s">>, <<"a","s","a">>, <<"b","e","r","h","a","d">>,
       <<"b","h","d">>, <<"b","v">>, <<"c","v","a">>, <<"e","s","p">>, <<"j","s","c">>,
       <<"j","s","c","b">>, <<"k","g","a","a">>, <<"k","p","s","c">>, <<"k","s","c">>,
       <<"k","s","c","p">>, <<"n","v">>, <<"o","y","j">>, <<"p","c","l">>, <<"p","t">>,
       <<"p","u","b","l">>, <<"s","p","a">>, <<"s","a","e">>, <<"s","a">>, <<"s","a","a">>,
       <<"s","a","o","g">>, <<"s","e">>, <<"s","p","v">>, <<"t","b","k">> >>

\* The alternatives of the compiled pattern ' (...)$' for a geography.
legal_forms_int ==
    legal_forms_us \o legal_forms_ext

legal_forms(geography) ==
    IF geography = "us" THEN legal_forms_us
    ELSE IF geography = "int" THEN legal_forms_int
    ELSE <<>>

\* ' (q[1-4].*?|old|adr)$' matches s at index i.
PeriodArtifactAt(s, i) ==
    /\ s[i] = " "
    /\ \/ /\ i + 2 <= Len(s)
          /\ s[i + 1] = "q"
          /\ s[i + 2] \in {"1", "2", "3", "4"}
       \/ TailIs(s, i + 1, <<"o","l","d">>)
       \/ TailIs(s, i + 1, <<"a","d","r">>)

\* ' (cl ?a|cl ?b|redh)$' matches s at index i.
ShareClassAt(s, i) ==
    /\ s[i] = " "
    /\ \/ TailIs(s, i + 1, <<"c","l"," ","a">>)
       \/ TailIs(s, i + 1, <<"c","l","a">>)
       \/ TailIs(s, i + 1, <<"c","l"," ","b">>)
       \/ TailIs(s, i + 1, <<"c","l","b">>)
       \/ TailIs(s, i + 1, <<"r","e","d","h">>)

\* '-old$' matches s at index i.
HyphenOldAt(s, i) ==
    TailIs(s, i, <<"-","o","l","d">>)

\* legal_forms matches s at index i.
LegalFormAt(s, i, forms) ==
    /\ s[i] = " "
    /\ \E k \in DOMAIN forms : TailIs(s, i + 1, forms[k])

\* legal_forms.search(x)
LegalFormSearch(s, forms) ==
    \E i \in 1..Len(s) : LegalFormAt(s, i, forms)

\* The legal-form strip done once instead of until nothing matches.
StripLegalForms_once(s, forms) ==
    LET at == {i \in 1..Len(s) : LegalFormAt(s, i, forms)}
    IN IF LegalFormSearch(s, forms) THEN strip(DeleteLeftmostToEnd(s, at)) ELSE s

\* while legal_forms.search(x): x = re.sub(legal_forms, '', x).strip()
RECURSIVE StripLegalForms(_, _)
StripLegalForms(s, forms) ==
    IF LegalFormSearch(s, forms)
    THEN LET at == {i \in 1..Len(s) : LegalFormAt(s, i, forms)}
         IN StripLegalForms(strip(DeleteLeftmostToEnd(s, at)), forms)
    ELSE s

\* re.sub('^' + p, '', s) for a literal p.
DeletePrefix(s, p) ==
    IF MatchAt(s, 1, p) THEN SubSeq(s, Len(p) + 1, Len(s)) ELSE s

\* re.sub(r'^the ', '', x) and re.sub(r'^(the|pt) ', '', x)
StripLeadingArticle(s, geography) ==
    IF geography = "us" THEN DeletePrefix(s, <<"t","h","e"," ">>)
    ELSE IF geography = "int"
         THEN IF MatchAt(s, 1, <<"t","h","e"," ">>)
              THEN DeletePrefix(s, <<"t","h","e"," ">>)
              ELSE DeletePrefix(s, <<"p","t"," ">>)
    ELSE s

\* re.sub(p, r, s) for a literal p, scanning from index i: non-overlapping
\* matches, left to right.
RECURSIVE ReplaceAllFrom(_, _, _, _)
ReplaceAllFrom(s, i, p, r) ==
    IF i > Len(s) THEN <<>>
    ELSE IF MatchAt(s, i, p) THEN r \o ReplaceAllFrom(s, i + Len(p), p, r)
    ELSE <<s[i]>> \o ReplaceAllFrom(s, i + 1, p, r)

\* The spaces left in place.
RemoveSpaces_kept(s) ==
    s

\* x.replace(' ', '')
RemoveSpaces(s) ==
    SelectSeq(s, LAMBDA c : c # " ")

normalize_company_names(x, geography) ==
    LET x1 == strip(lower(x.s))
        x2 == DeleteOutside(x1, LowerAlnumSpace)
        x3 == DeleteLeftmostToEnd(x2, {i \in 1..Len(x2) : PeriodArtifactAt(x2, i)})
        x4 == DeleteLeftmostToEnd(x3, {i \in 1..Len(x3) : ShareClassAt(x3, i)})
        x5 == DeleteLeftmostToEnd(x4, {i \in 1..Len(x4) : HyphenOldAt(x4, i)})
        x6 == StripLegalForms(x5, legal_forms(geography))
        x7 == StripLeadingArticle(x6, geography)
        x8 == ReplaceAllFrom(x7, 1, <<" ","a","n","d"," ">>, <<" ">>)
    IN RemoveSpaces(x8)

(***************************************************************************)
(* normalize_person_names                                                  *)
(***************************************************************************)
titles ==
    << <<"E","c","o","n","o","m","i","c","s">>, <<"P","h","a","r","m","D">>, <<"C","I","S","A">>,
       <<"M","P","P","M">>, <<"H","o","n","s">>, <<"H","o","n">>, <<"B","B","A">>, <<"M","B","A">>,
       <<"J","D">>, <<"M","I","M">>, <<"P","h","D">>, <<"H","o","n">>, <<"F","C","P","A">>,
       <<"C","F","A">>, <<"C","P","A">>, <<"F","C","A">>, <<"C","M","A">>, <<"M","A","I">>,
       <<"B","S","c">>, <<"B","S","C">>, <<"M","S","c">>, <<"M","S","C">>, <<"E","S","Q">>,
       <<"M","S">>, <<"B","A">>, <<"C","A">>, <<"B","E">>, <<"A","M">>, <<"P","E">>, <<"A","O">>,
       <<"M","D">> >>

\* The first alternative of ' (Economics|...|MD)' that matches s at index i,
\* or 0 when none does.
TitleAt(s, i) ==
    IF s[i] = " " /\ \E k \in DOMAIN titles : MatchAt(s, i + 1, titles[k])
    THEN CHOOSE k \in DOMAIN titles :
            /\ MatchAt(s, i + 1, titles[k])
            /\ \A j \in 1..(k - 1) : ~MatchAt(s, i + 1, titles[j])
    ELSE 0

\* re.sub(r' (Economics|...|MD)', '', x), scanning from index i.
RECURSIVE RemoveTitlesFrom(_, _)
RemoveTitlesFrom(s, i) ==
    IF i > Len(s) THEN <<>>
    ELSE IF TitleAt(s, i) # 0 THEN RemoveTitlesFrom(s, i + 1 + Len(titles[TitleAt(s, i)]))
    ELSE <<s[i]>> \o RemoveTitlesFrom(s, i + 1)

\* str.split(): the maximal runs of non-whitespace characters.
RECURSIVE split(_)
split(s) ==
    LET t == lstrip(s)
    IN IF t = <<>> THEN <<>>
       ELSE LET n == IF \E i \in 1..Len(t) : t[i] \in Whitespace
                     THEN (CHOOSE i \in 1..Len(t) :
                              /\ t[i] \in Whitespace
                              /\ \A j \in 1..(i - 1) : t[j] \notin Whitespace) - 1
                     ELSE Len(t)
            IN <<SubSeq(t, 1, n)>> \o split(SubSeq(t, n + 1, Len(t)))

\* Python's order on str: a < b.
RECURSIVE StrLess(_, _)
StrLess(a, b) ==
    IF b = <<>> THEN FALSE
    ELSE IF a = <<>> THEN TRUE
    ELSE IF Head(a) = Head(b) THEN StrLess(Tail(a), Tail(b))
    ELSE Ord(Head(a)) < Ord(Head(b))

RECURSIVE Insert(_, _)
Insert(t, sorted) ==
    IF sorted = <<>> THEN <<t>>
    ELSE IF StrLess(t, Head(sorted)) THEN <<t>> \o sorted
    ELSE <<Head(sorted)>> \o Insert(t, Tail(sorted))

\* list.sort() on a list of str.
RECURSIVE sort(_)
sort(l) ==
    IF l = <<>> THEN <<>> ELSE Insert(Head(l), sort(Tail(l)))

\* ''.join(l)
RECURSIVE join(_)
join(l) ==
    IF l = <<>> THEN <<>> ELSE Head(l) \o join(Tail(l))

\* What re.sub raises when its string argument is not a str.
TypeError ==
    <<"TypeError">>

\* The steps of normalize_person_names on a str.
PersonKey(s) ==
    LET x1 == DeleteOutside(s, AlnumSpace)
        x2 == RemoveTitlesFrom(x1, 1)
        x3 == strip(lower(x2))
    IN join(sort(split(x3)))

\* The first re.sub of normalize_person_names is given a value that is no str.
PersonRaises(x) ==
    x.type # "str"

\* The key, or TypeError when the function raises it.
normalize_person_names(x) ==
    IF PersonRaises(x) THEN TypeError ELSE PersonKey(x.s)

(***************************************************************************)
(* match: the dispatch on the chosen entity type (the "normalization"      *)
(* radio value) to a normalizer.                                           *)
(***************************************************************************)
Normalizations ==
    {"Firm (US)", "Firm (Int)", "Person"}

\* The function match maps over a name column under a normalization.
NormalizeName(normalization, v) ==
    IF normalization = "Firm (US)" THEN normalize_company_names(v, "us")
    ELSE IF normalization = "Firm (Int)" THEN normalize_company_names(v, "int")
    ELSE normalize_person_names(v)

\* The normalizer raises: only normalize_person_names does, as
\* normalize_company_names starts with str(x).
NormalizeRaises(normalization, v) ==
    /\ normalization \notin {"Firm (US)", "Firm (Int)"}
    /\ PersonRaises(v)

\* A Python str value.
Str(s) ==
    [type |-> "str", s |-> s]

\* Python's None.
None ==
    [type |-> "NoneType", s |-> <<"N","o","n","e">>]

(***************************************************************************)
(* Inputs of the normalizers: names of a few words, and values that are    *)
(* not strings.                                                            *)
(***************************************************************************)
MaxTokens == 2
MaxSuffixes == 2
MaxVariantTokens == 3

CompanyWords ==
    { <<"A","c","m","e">>, <<"T","h","e">>, <<"o","l","d">>, <<"P","u","b","l","i","c">>,
      <<"I","n","c",".">>, <<"c","l","a">> }

PersonWords ==
    { <<"J","o","h","n">>, <<"Q">>, <<"S","m","i","t","h",",">>, <<"M","B","A">>,
      <<"B","A","k","e","r">> }

\* Legal-form tokens appended to a company name.
SuffixTokens(normalization) ==
    IF normalization = "Firm (US)"
    THEN { <<"h","o","l","d","i","n","g","s">>, <<"i","n","c">>, <<"l","i","m","i","t","e","d">> }
    ELSE IF normalization = "Firm (Int)"
    THEN { <<"a","g">>, <<"i","n","c">>, <<"l","i","m","i","t","e","d">> }
    ELSE {}

\* A number, a missing value (NaN) and None, each with its str() form.
NonStrings ==
    { [type |-> "int", s |-> <<"4","2">>],
      [type |-> "float", s |-> <<"n","a","n">>],
      None }

SeqsUpTo(S, n) ==
    UNION {[1..k -> S] : k \in 0..n}

\* sep.join(l)
RECURSIVE JoinWith(_, _)
JoinWith(l, sep) ==
    IF l = <<>> THEN <<>>
    ELSE IF Len(l) = 1 THEN l[1]
    ELSE l[1] \o sep \o JoinWith(Tail(l), sep)

WordsOf(normalization) ==
    IF normalization = "Person" THEN PersonWords ELSE CompanyWords

Names(normalization, n) ==
    {Str(JoinWith(t, <<" ">>)) : t \in SeqsUpTo(WordsOf(normalization), n)}

\* The name with the suffix tokens appended, each after one space.
RECURSIVE AppendSuffixes(_, _)
AppendSuffixes(s, fs) ==
    IF fs = <<>> THEN s ELSE AppendSuffixes(s \o <<" ">> \o Head(fs), Tail(fs))

\* The upper-case letter of each lower-case letter.
UpperOf ==
    [c \in Range(LowerLetters) |->
        UpperLetters[CHOOSE i \in DOMAIN LowerLetters : LowerLetters[i] = c]]

\* A letter in the other case; any other character unchanged.
SwapCase(c) ==
    IF c \in DOMAIN UpperOf THEN UpperOf[c]
    ELSE IF c \in DOMAIN LowerOf THEN LowerOf[c]
    ELSE c

\* str.upper()
upper(s) ==
    [i \in 1..Len(s) |-> IF s[i] \in DOMAIN UpperOf THEN UpperOf[s[i]] ELSE s[i]]

\* The spellings of s that differ from it in letter case only: all upper,
\* all lower, or one letter in the other case.
CaseVariants(s) ==
    {upper(s), lower(s)} \cup {[s EXCEPT ![i] = SwapCase(s[i])] : i \in 1..Len(s)}

\* The spellings of s that differ from it in whitespace only: one whitespace
\* character put before or after it or next to one between its tokens, or
\* one whitespace character between its tokens replaced by another.
WhitespaceVariants(s) ==
    {<<w>> \o s : w \in Whitespace}
    \cup {s \o <<w>> : w \in Whitespace}
    \cup {SubSeq(s, 1, i) \o <<w>> \o SubSeq(s, i + 1, Len(s)) :
             i \in {j \in 1..Len(s) : s[j] \in Whitespace}, w \in Whitespace}
    \cup {[s EXCEPT ![i] = w] : i \in {j \in 1..Len(s) : s[j] \in Whitespace},
                                w \in Whitespace}

\* The orders of the whitespace-separated tokens of s, each joined by single
\* spaces.
TokenOrders(s) ==
    LET toks == split(s)
        n == Len(toks)
        perms == {f \in [1..n -> 1..n] : \A i, j \in 1..n : i # j => f[i] # f[j]}
    IN {JoinWith([i \in 1..n |-> toks[f[i]]], <<" ">>) : f \in perms}

(***************************************************************************)
(* fuzzy_match: the similarity score and the best-match search.            *)
(***************************************************************************)
Max(a, b) ==
    IF a >= b THEN a ELSE b

\* One row of the longest-common-subsequence table, built left to right in
\* cur: its entry j is the length for the prefix of a ending in character c
\* and the first j characters of b, prev the row of the prefix before c.
RECURSIVE LcsRow(_, _, _, _)
LcsRow(prev, c, b, cur) ==
    IF Len(cur) >= Len(b) THEN cur
    ELSE LET j == Len(cur) + 1
             left == IF j = 1 THEN 0 ELSE cur[j - 1]
             diag == IF j = 1 THEN 0 ELSE prev[j - 1]
             v == IF c = b[j] THEN diag + 1 ELSE Max(prev[j], left)
         IN LcsRow(prev, c, b, Append(cur, v))

\* The last row of the table, prev the row before character i of a; a row
\* that already holds all of b cannot grow.
RECURSIVE LcsRows(_, _, _, _)
LcsRows(a, b, i, prev) ==
    IF i > Len(a) \/ prev[Len(b)] = Len(b) THEN prev
    ELSE LcsRows(a, b, i + 1, LcsRow(prev, a[i], b, <<>>))

\* Length of the longest common prefix of a and b.
RECURSIVE CommonPrefix(_, _, _)
CommonPrefix(a, b, n) ==
    IF n < Len(a) /\ n < Len(b) /\ a[n + 1] = b[n + 1]
    THEN CommonPrefix(a, b, n + 1) ELSE n

\* Length of a longest common subsequence of a and b: the common prefix
\* counts in full, the table is computed for what follows it.
LCS(a, b) ==
    LET n == CommonPrefix(a, b, 0)
        ra == SubSeq(a, n + 1, Len(a))
        rb == SubSeq(b, n + 1, Len(b))
    IN IF ra = <<>> \/ rb = <<>> THEN n
       ELSE n + LcsRows(ra, rb, 1, [j \in 1..Len(rb) |-> 0])[Len(rb)]

\* fuzz.ratio(a, b): the normalized Indel similarity times 100, the float
\* num / den.
ratio(a, b) ==
    IF Len(a) + Len(b) = 0
    THEN [type |-> "float", num |-> 100, den |-> 1]
    ELSE [type |-> "float", num |-> 200 * LCS(a, b), den |-> Len(a) + Len(b)]

\* score r1 > score r2
Greater(r1, r2) ==
    r1.num * r2.den > r2.num * r1.den

\* process.extractOne scanning the choices view[i..]: a later choice replaces
\* the best so far only with a strictly greater score.
RECURSIVE ExtractFrom(_, _, _, _, _)
ExtractFrom(query, keys, view, i, best) ==
    IF i > Len(view) THEN best
    ELSE LET choice == keys[view[i]]
             score == ratio(query, choice)
         IN IF best = None \/ Greater(score, best.score)
            THEN ExtractFrom(query, keys, view, i + 1,
                             [choice |-> choice, score |-> score, key |-> view[i]])
            ELSE ExtractFrom(query, keys, view, i + 1, best)

\* process.extractOne(query, db[db_name_norm], scorer=fuzz.ratio) over the rows
\* view of the reference data: None when there is no choice.
extractOne(query, keys, view) ==
    ExtractFrom(query, keys, view, 1, None)

\* The row numbers 1..n of a dataset, in dataset order.
Rows(db) ==
    [j \in 1..Len(db) |-> j]

\* The period filter comparing the year alone, whatever is configured.
CandidateFilter_year_only(q, db, c) ==
    IF c.q_fy /\ c.db_fy
    THEN SelectSeq(Rows(db), LAMBDA j : db[j].year = q.year)
    ELSE Rows(db)

\* The rows of db that retrieve_nn keeps for query row q, as row numbers in
\* dataset order; c holds which period columns are configured.
CandidateFilter(q, db, c) ==
    IF c.q_fy /\ c.q_qtr /\ c.db_fy /\ c.db_qtr
    THEN SelectSeq(Rows(db), LAMBDA j : db[j].year = q.year /\ db[j].qtr = q.qtr)
    ELSE IF c.q_fy /\ c.db_fy
    THEN SelectSeq(Rows(db), LAMBDA j : db[j].year = q.year)
    ELSE Rows(db)

\* The filter reads a configured column that the dataset does not have: the
\* KeyError is raised outside the try block.
FilterRaises(c) ==
    \/ /\ c.q_fy /\ c.q_qtr /\ c.db_fy /\ c.db_qtr
       /\ c.fault \in {"p_year", "p_qtr", "s_year", "s_qtr"}
    \/ /\ ~(c.q_fy /\ c.q_qtr /\ c.db_fy /\ c.db_qtr)
       /\ c.q_fy /\ c.db_fy
       /\ c.fault \in {"p_year", "s_year"}

\* db[db[db_name_norm] == nn]: the rows of the view whose key is nn.
RowsWithKey(keys, view, nn) ==
    SelectSeq(view, LAMBDA j : keys[j] = nn)

\* str(v.item()) if len(v) == 1 else ', '.join(str(x) for x in v.tolist())
RenderIds(db, m) ==
    IF Len(m) = 1 THEN Str(db[m[1]].id.s)
    ELSE Str(JoinWith([i \in 1..Len(m) |-> db[m[i]].id.s], <<",", " ">>))

\* v.item() if len(v) == 1 else ', '.join(str(x) for x in v.tolist())
RenderNames(db, m) ==
    IF Len(m) = 1 THEN db[m[1]].name
    ELSE Str(JoinWith([i \in 1..Len(m) |-> db[m[i]].name.s], <<",", " ">>))

\* len(id) is evaluated on the builtin function id, which has no len(): a
\* TypeError.
LenOfIdRaises ==
    TRUE

NoneResult ==
    <<None, None, None, None>>

\* Whether the try block of retrieve_nn raises for a query key over the rows
\* view: the key column is absent, extractOne returned None (it cannot be
\* unpacked), the identifier column is absent, or len(id) raises.
TryRaises(query, keys, view, c) ==
    \/ c.normalization \notin Normalizations
    \/ extractOne(query, keys, view) = None
    \/ c.fault = "s_id"
    \/ LenOfIdRaises

\* What the try block returns when nothing in it raises.
TryBlock(query, db, keys, view) ==
    LET best == extractOne(query, keys, view)
        m == RowsWithKey(keys, view, best.choice)
    IN <<Str(best.choice), best.score, RenderIds(db, m), RenderNames(db, m)>>

\* retrieve_nn with its try block unguarded: whatever the block raises leaves
\* the function.
retrieve_nn_uncaught(q, query, db, keys, c) ==
    IF FilterRaises(c) THEN [raised |-> TRUE, view |-> <<>>, value |-> NoneResult]
    ELSE LET view == CandidateFilter(q, db, c)
         IN [raised |-> TryRaises(query, keys, view, c), view |-> view,
             value |-> NoneResult]

\* retrieve_nn for query row q with key query: whether it raises, the rows
\* view it gives to extractOne, and the tuple it returns.  The except clause
\* turns every exception of the try block into the all-None tuple.
retrieve_nn(q, query, db, keys, c) ==
    IF FilterRaises(c) THEN [raised |-> TRUE, view |-> <<>>, value |-> NoneResult]
    ELSE LET view == CandidateFilter(q, db, c)
         IN [raised |-> FALSE, view |-> view,
             value |-> IF TryRaises(query, keys, view, c) THEN NoneResult
                       ELSE TryBlock(query, db, keys, view)]

(***************************************************************************)
(* Datasets of a run.                                                      *)
(***************************************************************************)
MaxQueryRows == 2
MaxRefRows == 3
MaxFaultRows == 1

QueryRows ==
    { [name |-> Str(<<"T","h","e"," ","A","c","m","e"," ","C","o","r","p">>),
       year |-> 2020, qtr |-> 1],
      [name |-> Str(<<"B","e","t","a">>), year |-> 2019, qtr |-> 2] }

RefRows ==
    { [name |-> Str(<<"A","C","M","E"," ","C","o","m","p","a","n","y">>),
       id |-> [type |-> "int", s |-> <<"1","0">>], year |-> 2020, qtr |-> 1],
      [name |-> Str(<<"A","c","m","e">>),
       id |-> [type |-> "int", s |-> <<"1","1">>], year |-> 2020, qtr |-> 2],
      [name |-> Str(<<"B","e","t","a"," ","L","t","d">>),
       id |-> [type |-> "int", s |-> <<"1","2">>], year |-> 2019, qtr |-> 1],
      [name |-> Str(<<"A","c","m","e"," ","I","n","c">>),
       id |-> [type |-> "int", s |-> <<"1","3">>], year |-> 2020, qtr |-> 1] }

\* The sequences of at most n distinct members of S.
DistinctSeqsUpTo(S, n) ==
    {s \in SeqsUpTo(S, n) : \A i, j \in 1..Len(s) : i # j => s[i] # s[j]}

\* What can be structurally wrong with a run: a file that is neither .csv nor
\* .dta, or a configured column that its dataset does not have.
Faults ==
    {"p_file", "s_file", "p_name", "s_name", "s_id", "p_year", "p_qtr", "s_year", "s_qtr"}

VARIABLES
    phase,      \* normalizer: "input", "normalized", "renormalized" or "raised"
    mode,       \* normalizer: the normalization applied
    x,          \* normalizer: the value normalized
    rel,        \* normalizer: how y is made from x
    sfx,        \* normalizer: the legal-form tokens appended to x to give y
    y,          \* normalizer: a second value, related to x
    kx,         \* normalizer: the key of x
    ky,         \* normalizer: the key of y
    kkx,        \* normalizer: the key of the key of x
    kky,        \* normalizer: the key of the key of y
    pc,         \* match: "start", "matching", "done" or "error"
    cfg,        \* match: the configured columns, the normalization, the fault
    pri,        \* match: the primary (query) dataset
    sec,        \* match: the secondary (reference) dataset
    p_norm,     \* match: the key column of pri
    s_norm,     \* match: the key column of sec
    row,        \* match: the query row retrieve_nn is applied to next
    results,    \* match: what fuzzy_match has returned so far, one per row
    scored,     \* match: the reference rows given to extractOne for the last row
    output      \* match: the four columns written, or <<>>

nvars == <<phase, mode, x, rel, sfx, y, kx, ky, kkx, kky>>
mvars == <<pc, cfg, pri, sec, p_norm, s_norm, row, results, scored, output>>
vars == <<nvars, mvars>>

NormIdle ==
    /\ phase = "idle"
    /\ mode = "Person"
    /\ x = None
    /\ rel = "none"
    /\ sfx = <<>>
    /\ y = None
    /\ kx = <<>>
    /\ ky = <<>>
    /\ kkx = <<>>
    /\ kky = <<>>

MatchIdle ==
    /\ pc = "idle"
    /\ cfg = [q_fy |-> FALSE, q_qtr |-> FALSE, db_fy |-> FALSE, db_qtr |-> FALSE,
              normalization |-> "Person", fault |-> "none"]
    /\ pri = <<>>
    /\ sec = <<>>
    /\ p_norm = <<>>
    /\ s_norm = <<>>
    /\ row = 1
    /\ results = <<>>
    /\ scored = <<>>
    /\ output = <<>>

(***************************************************************************)
(* The normalizers applied to bounded inputs.                              *)
(***************************************************************************)
NormInit ==
    /\ phase = "input"
    /\ mode \in Normalizations
    /\ x \in Names(mode, MaxTokens) \cup NonStrings
    /\ rel = "suffix"
    /\ sfx \in IF x.type = "str" THEN SeqsUpTo(SuffixTokens(mode), MaxSuffixes) ELSE {<<>>}
    /\ y = [x EXCEPT !.s = AppendSuffixes(x.s, sfx)]
    /\ kx = <<>>
    /\ ky = <<>>
    /\ kkx = <<>>
    /\ kky = <<>>
    /\ MatchIdle

\* The normalizer of the mode is applied to x and to y.
Normalize ==
    /\ phase = "input"
    /\ kx' = NormalizeName(mode, x)
    /\ ky' = NormalizeName(mode, y)
    /\ phase' = IF kx' = TypeError \/ ky' = TypeError THEN "raised" ELSE "normalized"
    /\ UNCHANGED <<mode, x, rel, sfx, y, kkx, kky, mvars>>

\* The normalizer of the mode is applied to the keys it produced.
Renormalize ==
    /\ phase = "normalized"
    /\ kkx' = NormalizeName(mode, Str(kx))
    /\ kky' = NormalizeName(mode, Str(ky))
    /\ phase' = "renormalized"
    /\ UNCHANGED <<mode, x, rel, sfx, y, kx, ky, mvars>>

NormNext ==
    \/ Normalize
    \/ Renormalize

NormSpec ==
    NormInit /\ [][NormNext]_vars

\* The normalizers applied to a name and to a variant of it: for a person the
\* same tokens in another order, for a company another spelling in letter
\* case or in whitespace.
VariantInit ==
    /\ phase = "input"
    /\ mode \in Normalizations
    /\ x \in Names(mode, MaxVariantTokens)
    /\ rel = IF mode = "Person" THEN "perm" ELSE "variant"
    /\ sfx = <<>>
    /\ \E s \in IF mode = "Person" THEN TokenOrders(x.s)
                 ELSE CaseVariants(x.s) \cup WhitespaceVariants(x.s)
                      \cup WhitespaceVariants(upper(x.s)) :
          y = Str(s)
    /\ kx = <<>>
    /\ ky = <<>>
    /\ kkx = <<>>
    /\ kky = <<>>
    /\ MatchIdle

VariantSpec ==
    VariantInit /\ [][NormNext]_vars

(***************************************************************************)
(* match: one run over a primary and a secondary dataset.                  *)
(***************************************************************************)
Configs(normalizations, faults) ==
    [q_fy : BOOLEAN, q_qtr : BOOLEAN, db_fy : BOOLEAN, db_qtr : BOOLEAN,
     normalization : normalizations, fault : faults]

MatchStart ==
    /\ pc = "start"
    /\ p_norm = <<>>
    /\ s_norm = <<>>
    /\ row = 1
    /\ results = <<>>
    /\ scored = <<>>
    /\ output = <<>>
    /\ NormIdle

\* A run with nothing structurally wrong.
Init ==
    /\ cfg \in Configs(Normalizations, {"none"})
    /\ pri \in DistinctSeqsUpTo(QueryRows, MaxQueryRows)
    /\ sec \in DistinctSeqsUpTo(RefRows, MaxRefRows)
    /\ MatchStart

\* The key column match assigns to a dataset.
KeyColumn(data, normalization) ==
    [j \in 1..Len(data) |-> NormalizeName(normalization, data[j].name)]

\* Reading the two files and assigning the key columns raises: a file is
\* neither .csv nor .dta, a name column is absent, or a normalizer raises.
ReadRaises(c, p, s) ==
    \/ c.fault \in {"p_file", "s_file"}
    \/ /\ c.normalization \in Normalizations
       /\ \/ c.fault \in {"p_name", "s_name"}
          \/ \E j \in 1..Len(p) : NormalizeRaises(c.normalization, p[j].name)
          \/ \E j \in 1..Len(s) : NormalizeRaises(c.normalization, s[j].name)

\* match up to the call of fuzzy_match: the files are read and the names
\* normalized; an unknown normalization assigns no key column.
ReadAndNormalize ==
    /\ pc = "start"
    /\ IF ReadRaises(cfg, pri, sec)
       THEN /\ pc' = "error"
            /\ UNCHANGED <<p_norm, s_norm>>
       ELSE /\ pc' = "matching"
            /\ IF cfg.normalization \in Normalizations
               THEN /\ p_norm' = KeyColumn(pri, cfg.normalization)
                    /\ s_norm' = KeyColumn(sec, cfg.normalization)
               ELSE UNCHANGED <<p_norm, s_norm>>
    /\ UNCHANGED <<cfg, pri, sec, row, results, scored, output, nvars>>

\* The key of query row k (x[q_name_norm]); read only where the column exists.
QueryKey(k) ==
    IF cfg.normalization \in Normalizations THEN p_norm[k] ELSE <<>>

\* progress_apply calls retrieve_nn on the next query row; an exception the
\* filter raises ends the run.
RetrieveRow ==
    /\ pc = "matching"
    /\ row <= Len(pri)
    /\ LET r == retrieve_nn(pri[row], QueryKey(row), sec, s_norm, cfg)
       IN IF r.raised
          THEN /\ pc' = "error"
               /\ UNCHANGED <<row, results, scored>>
          ELSE /\ scored' = r.view
               /\ results' = Append(results, r.value)
               /\ row' = row + 1
               /\ pc' = "matching"
    /\ UNCHANGED <<cfg, pri, sec, p_norm, s_norm, output, nvars>>

\* zip(*results) is unpacked into the four new columns and the file is
\* written; with no query row there is nothing to unpack and the run ends in
\* an error.
Finish ==
    /\ pc = "matching"
    /\ row > Len(pri)
    /\ IF Len(pri) = 0
       THEN /\ pc' = "error"
            /\ UNCHANGED output
       ELSE /\ pc' = "done"
            /\ output' = results
    /\ UNCHANGED <<cfg, pri, sec, p_norm, s_norm, row, results, scored, nvars>>

Next ==
    \/ ReadAndNormalize
    \/ RetrieveRow
    \/ Finish

Spec ==
    Init /\ [][Next]_vars

\* Runs with at most one structural fault, or an unknown normalization.
FaultInit ==
    /\ cfg \in Configs(Normalizations \cup {"Other"}, Faults \cup {"none"})
    /\ pri \in SeqsUpTo(QueryRows, MaxFaultRows)
    /\ sec \in SeqsUpTo(RefRows, MaxFaultRows)
    /\ MatchStart

FaultSpec ==
    FaultInit /\ [][Next]_vars

(***************************************************************************)
(* Properties.                                                             *)
(***************************************************************************)
Company ==
    {"Firm (US)", "Firm (Int)"}

Normalized ==
    phase \in {"normalized", "renormalized"}

\* The result the search is to give for query row k: the best key, its
\* score, and the identifiers and names of the candidate rows with that key.
ExpectedResult(k) ==
    TryBlock(p_norm[k], sec, s_norm, CandidateFilter(pri[k], sec, cfg))

\* C1: every processed query row whose filtered candidate set is not empty
\* has a result that is not absent: the best key, its score, and the
\* identifiers and names of the filtered rows with that key in dataset order
\* (one row unchanged, several comma-joined); a query key equal to a
\* candidate key scores 100.
C1_MatchEmitted ==
    \A k \in 1..Len(results) :
        LET view == CandidateFilter(pri[k], sec, cfg)
        IN view # <<>> =>
              /\ results[k] = ExpectedResult(k)
              /\ (\E i \in 1..Len(view) : s_norm[view[i]] = p_norm[k])
                    => /\ ExpectedResult(k)[1] = Str(p_norm[k])
                       /\ ExpectedResult(k)[2].num = 100 * ExpectedResult(k)[2].den

\* C2: a query row whose period filter leaves no candidate is given the
\* all-None result without raising: the step stays in the run and moves to
\* the next row; a run ends in an error only before any row has a result, and
\* a finished run holds one result per query row, the all-None one for each
\* row without candidates.
C2_EmptyFilterNoMatch ==
    [][ /\ (pc = "matching" /\ row <= Len(pri)
              /\ CandidateFilter(pri[row], sec, cfg) = <<>>)
           => /\ pc' = "matching"
              /\ row' = row + 1
              /\ results' = Append(results, NoneResult)
        /\ pc' = "error" => results' = <<>>
        /\ pc' = "done"
           => /\ Len(output') = Len(pri)
              /\ \A k \in 1..Len(pri) :
                    CandidateFilter(pri[k], sec, cfg) = <<>> => output'[k] = NoneResult
      ]_vars

\* A finished run of two query rows, the first without candidates in a
\* reference dataset that is not empty, the second with candidates.
C2_Witness ==
    /\ pc = "done"
    /\ Len(pri) = 2
    /\ sec # <<>>
    /\ CandidateFilter(pri[1], sec, cfg) = <<>>
    /\ CandidateFilter(pri[2], sec, cfg) # <<>>
    /\ Len(output) = 2
    /\ output[1] = NoneResult

\* The reference rows eligible for query row k.
Eligible(k) ==
    IF cfg.q_fy /\ cfg.q_qtr /\ cfg.db_fy /\ cfg.db_qtr
    THEN {j \in 1..Len(sec) : sec[j].year = pri[k].year /\ sec[j].qtr = pri[k].qtr}
    ELSE IF cfg.q_fy /\ cfg.db_fy
    THEN {j \in 1..Len(sec) : sec[j].year = pri[k].year}
    ELSE 1..Len(sec)

\* C3: the reference rows given to the search for a query row are exactly
\* those with the row's year and quarter when year and quarter are configured
\* on both sides, else exactly those with the row's year when a year is
\* configured on both sides, else all of them, in dataset order; the step
\* leaves the reference dataset as it was.
C3_FilterExact ==
    [][ (pc = "matching" /\ pc' = "matching" /\ row' = row + 1)
           => /\ Range(scored') = Eligible(row)
              /\ Len(scored') = Cardinality(Eligible(row))
              /\ \A i, j \in 1..Len(scored') : i < j => scored'[i] < scored'[j]
              /\ sec' = sec
              /\ s_norm' = s_norm
      ]_vars

\* Year and quarter configured on both sides, the query row at (2020, 1),
\* the reference rows at (2020, 1), (2020, 2), (2019, 1): only the first is
\* given to the search.
C3_Witness ==
    /\ pc = "matching"
    /\ row = 2
    /\ cfg.q_fy /\ cfg.q_qtr /\ cfg.db_fy /\ cfg.db_qtr
    /\ pri[1].year = 2020 /\ pri[1].qtr = 1
    /\ Len(sec) = 3
    /\ <<sec[1].year, sec[1].qtr>> = <<2020, 1>>
    /\ <<sec[2].year, sec[2].qtr>> = <<2020, 2>>
    /\ <<sec[3].year, sec[3].qtr>> = <<2019, 1>>
    /\ scored = <<1>>

\* C4: normalizing a key again gives the same key, in every mode.
C4_Idempotent ==
    phase = "renormalized" => (kkx = kx /\ kky = ky)

\* "Smith, John" normalized to "johnsmith", and that key normalized again.
C4_Witness ==
    /\ phase = "renormalized"
    /\ mode = "Person"
    /\ x = Str(<<"S","m","i","t","h",","," ","J","o","h","n">>)
    /\ kx = <<"j","o","h","n","s","m","i","t","h">>
    /\ kkx = kx

\* C5: normalization never fails, whatever the value and the mode: a value
\* that is no string is turned into its string form first.
C5_NeverFails ==
    phase # "input" => (phase # "raised" /\ kx # TypeError /\ ky # TypeError)

\* A company name X to which the amended C7 applies: its text after
\* lower-casing, stripping and the removal of special characters is not
\* empty, neither begins nor ends with a space, and does not end in one of the
\* words old, adr, cl a, cla, cl b, clb, redh, public after a space.
EndsInWord(c, w) ==
    Len(c) > Len(w) /\ TailIs(c, Len(c) - Len(w), <<" ">> \o w)

CleanName(s) ==
    LET c == DeleteOutside(strip(lower(s)), LowerAlnumSpace)
    IN /\ c # <<>>
       /\ c[1] # " "
       /\ c[Len(c)] # " "
       /\ \A w \in { <<"o","l","d">>, <<"a","d","r">>, <<"c","l"," ","a">>, <<"c","l","a">>,
                     <<"c","l"," ","b">>, <<"c","l","b">>, <<"r","e","d","h">>,
                     <<"p","u","b","l","i","c">> } : ~EndsInWord(c, w)

\* C7 as stated: under a company mode, a name with legal-form suffix tokens
\* appended has the key of the name alone, for every name.
C7_SuffixInvariant ==
    (Normalized /\ mode \in Company /\ x.type = "str" /\ rel = "suffix") => ky = kx

\* C7 as amended: the same, for the names CleanName describes.
C7_SuffixInvariantClean ==
    (Normalized /\ mode \in Company /\ x.type = "str" /\ rel = "suffix" /\ CleanName(x.s))
        => ky = kx

\* "Acme holdings inc" and "Acme" both normalized to "acme".
C7_Witness ==
    /\ phase = "normalized"
    /\ mode = "Firm (US)"
    /\ x = Str(<<"A","c","m","e">>)
    /\ sfx = << <<"h","o","l","d","i","n","g","s">>, <<"i","n","c">> >>
    /\ CleanName(x.s)
    /\ kx = <<"a","c","m","e">>
    /\ ky = kx

\* C8: under Person mode the key of a name is the key of its tokens in any
\* other order.
C8_TokenOrderInvariant ==
    (Normalized /\ mode = "Person" /\ rel = "perm") => ky = kx

\* C9: under a company mode two spellings of a name that differ in letter
\* case or in whitespace only have the same key.
C9_CaseWhitespaceInsensitive ==
    (Normalized /\ mode \in Company /\ rel = "variant") => ky = kx

\* The key of a person name when exactly its whole tokens that are titles are
\* removed and every other token is kept.
WholeTokenKey(s) ==
    LET toks == split(DeleteOutside(s, AlnumSpace))
        kept == SelectSeq(toks, LAMBDA tok : tok \notin Range(titles))
    IN join(sort([i \in 1..Len(kept) |-> lower(kept[i])]))

\* C10: Person-mode title stripping removes a title exactly where it is a
\* whole token, at any position, and alters no other token.
C10_WholeTitleTokens ==
    (Normalized /\ mode = "Person" /\ x.type = "str") => kx = WholeTokenKey(x.s)

\* What is structurally wrong with the run: a configured column absent from
\* its dataset, an empty dataset, or an unknown normalization.
Structural ==
    \/ cfg.fault \in {"p_name", "s_name", "s_id"}
    \/ cfg.fault = "p_year" /\ cfg.q_fy
    \/ cfg.fault = "p_qtr" /\ cfg.q_qtr
    \/ cfg.fault = "s_year" /\ cfg.db_fy
    \/ cfg.fault = "s_qtr" /\ cfg.db_qtr
    \/ pri = <<>>
    \/ sec = <<>>
    \/ cfg.normalization \notin Normalizations

\* C6: a structurally wrong run is aborted before any query row is
\* processed, and never finishes with per-row results.
C6_StructuralFailFast ==
    Structural => (pc # "done" /\ results = <<>>)
=============================================================================
